---- MODULE Spec2Model ----
(***************************************************************************)
(* A model of ktx2-reader's Reader (src/src/lib.rs): the identifier check, *)
(* the header decode, the level-index decode, the region geometry and the  *)
(* payload reads, over a byte stream with a cursor.                        *)
(*                                                                         *)
(* Unsigned integers keep their width.  A u32 is a pair and a u64 a        *)
(* quadruple of 16-bit limbs, least significant limb first, so that every  *)
(* 32-bit and 64-bit value has a representation and wrap-around and        *)
(* overflow are computed, not assumed away.                                *)
(***************************************************************************)
EXTENDS Integers, Sequences, FiniteSets, TLC

VARIABLES
  env,           \* the host's byte order and the build's overflow checks
  stream,        \* the bytes of the input
  pos,           \* the input's cursor, a u64
  pc,            \* where the Reader is: in new, ready, or in a read at an await
  head,          \* Reader.head (in new: the local `head`)
  levels_index,  \* Reader.levels_index
  trace,         \* the steps Reader::new has taken, in order
  call,          \* the locals of the call that is at an await
  buf,           \* the buffer of the latest read_data_to call
  result,        \* what the latest call returned
  io             \* the seeks and reads the latest call (or new) issued, in order

vars == <<env, stream, pos, pc, head, levels_index, trace, call, buf, result, io>>

-----------------------------------------------------------------------------
(* Fixed-width unsigned arithmetic on limb sequences.                      *)

Limb == 2^16

\* The limb sequence of n limbs that represents the small natural v.
RECURSIVE Word(_, _)
Word(v, n) == IF n = 0 THEN <<>> ELSE <<v % Limb>> \o Word(v \div Limb, n - 1)

U32(v) == Word(v, 2)
U64(v) == Word(v, 4)

IsZero(a) == \A i \in 1..Len(a) : a[i] = 0

\* a < b, both of the same width.
RECURSIVE Less(_, _)
Less(a, b) ==
  IF a = <<>> THEN FALSE
  ELSE LET n == Len(a)
       IN IF a[n] # b[n] THEN a[n] < b[n]
          ELSE Less(SubSeq(a, 1, n - 1), SubSeq(b, 1, n - 1))

Leq(a, b) == ~Less(b, a)

\* a + b + c limb by limb; the last element of the result is the carry out.
RECURSIVE AddC(_, _, _)
AddC(a, b, c) ==
  IF a = <<>> THEN <<c>>
  ELSE LET s == Head(a) + Head(b) + c
       IN <<s % Limb>> \o AddC(Tail(a), Tail(b), s \div Limb)

\* a - b - c limb by limb; the last element of the result is the borrow out.
RECURSIVE SubB(_, _, _)
SubB(a, b, c) ==
  IF a = <<>> THEN <<c>>
  ELSE LET d == Head(a) - Head(b) - c
       IN <<d % Limb>> \o SubB(Tail(a), Tail(b), IF d < 0 THEN 1 ELSE 0)

\* a * k for a small k; the last element of the result is the carry out.
RECURSIVE MulC(_, _, _)
MulC(a, k, c) ==
  IF a = <<>> THEN <<c>>
  ELSE LET p == Head(a) * k + c
       IN <<p % Limb>> \o MulC(Tail(a), k, p \div Limb)

Low(r) == SubSeq(r, 1, Len(r) - 1)
Carry(r) == r[Len(r)]

\* a zero-extended to n limbs.
Extend(a, n) == a \o [i \in 1..(n - Len(a)) |-> 0]

\* The value of a word that fits the model's integers (below 2^30).
Fits(a) == /\ \A i \in 3..Len(a) : a[i] = 0
           /\ a[2] < 2^14
ToNat(a) == a[1] + Limb * a[2]

\* u32 >> n for 0 <= n < 32.
Shr32(a, n) ==
  IF n >= 16 THEN <<a[2] \div 2^(n - 16), 0>>
  ELSE <<(a[1] \div 2^n) + (a[2] % 2^n) * 2^(16 - n), a[2] \div 2^n>>

\* u32::max(a, b)
Max32(a, b) == IF Less(a, b) THEN b ELSE a

-----------------------------------------------------------------------------
(* Results.                                                                *)

Ok(v) == [tag |-> "Ok", val |-> v]
Err(e) == [tag |-> "Err", err |-> e]
Panic(why) == [tag |-> "Panic", why |-> why]

\* Rust's 0-based half-open slice data[a..b].
Slice(data, a, b) == SubSeq(data, a + 1, b)

-----------------------------------------------------------------------------
(* Byte order.  NativeEndian is the byte order of the host the program was *)
(* built for: env.endian.                                                  *)

Rev(s) == [i \in 1..Len(s) |-> s[Len(s) + 1 - i]]

read_u32(data, endian) ==
  LET b == IF endian = "little" THEN data ELSE Rev(data)
  IN  <<b[1] + 256 * b[2], b[3] + 256 * b[4]>>

read_u64(data, endian) ==
  LET b == IF endian = "little" THEN data ELSE Rev(data)
  IN  <<b[1] + 256 * b[2], b[3] + 256 * b[4],
        b[5] + 256 * b[6], b[7] + 256 * b[8]>>

-----------------------------------------------------------------------------
(* Constants of the program.                                               *)

KTX2_IDENTIFIER == <<171, 75, 84, 88, 32, 50, 48, 187, 13, 10, 26, 10>>

LEVEL_INDEX_START_BYTE == 80

LEVEL_INDEX_BYTE_LEN == 24

HEAD_BYTES_LEN == 48

-----------------------------------------------------------------------------
(* Header decode.                                                          *)

\* The ids the format registry knows.  The registry (format.rs) is named by
\* lib.rs and is not part of the source at hand; the ids here stand for it.
FormatRegistry == {U32(37), U32(43), U32(109)}

\* Format::try_from(u32): the format, or UnknownFormat carrying the raw id.
Format_try_from(format_id) ==
  IF format_id \in FormatRegistry
    THEN Ok(format_id)
    ELSE Err([kind |-> "UnknownFormat", arg |-> format_id])

\* parse_base_width without its check.
parse_base_width_zero_ok(data, endian) == Ok(read_u32(Slice(data, 0, 4), endian))

parse_base_width(data, endian) ==
  LET res == read_u32(Slice(data, 0, 4), endian)
  IN  IF IsZero(res) THEN Err([kind |-> "ZeroWidth", arg |-> <<>>]) ELSE Ok(res)

\* parse_face_count without its check.
parse_face_count_zero_ok(data, endian) == Ok(read_u32(Slice(data, 0, 4), endian))

parse_face_count(data, endian) ==
  LET res == read_u32(Slice(data, 0, 4), endian)
  IN  IF IsZero(res) THEN Err([kind |-> "ZeroFaceCount", arg |-> <<>>]) ELSE Ok(res)

parse_supercompression_scheme(data, endian) ==
  LET res == read_u32(Slice(data, 0, 4), endian)
  IN  IF IsZero(res) THEN Ok(U32(0))
      ELSE Err([kind |-> "UnsupportedFeature", arg |-> <<>>])

\* Header::from_bytes: the fields are evaluated in the order they are
\* written, and the first `?` that meets an Err returns it.
Header_from_bytes(data, endian) ==
  LET format_id == read_u32(Slice(data, 12, 16), endian)
      format == Format_try_from(format_id)
      base_width == parse_base_width(Slice(data, 20, 24), endian)
      face_count == parse_face_count(Slice(data, 36, 40), endian)
      scheme == parse_supercompression_scheme(Slice(data, 44, 48), endian)
  IN  IF format.tag = "Err" THEN format
      ELSE IF base_width.tag = "Err" THEN base_width
      ELSE IF face_count.tag = "Err" THEN face_count
      ELSE IF scheme.tag = "Err" THEN scheme
      ELSE Ok([format |-> format.val,
               type_size |-> read_u32(Slice(data, 16, 20), endian),
               base_width |-> base_width.val,
               base_height |-> read_u32(Slice(data, 24, 28), endian),
               base_depth |-> read_u32(Slice(data, 28, 32), endian),
               layer_count |-> read_u32(Slice(data, 32, 36), endian),
               face_count |-> face_count.val,
               level_count |-> read_u32(Slice(data, 40, 44), endian),
               supercompression_scheme |-> scheme.val])

\* Reader::test_identifier
test_identifier(head_bytes) ==
  LET red_id == Slice(head_bytes, 0, 12)
  IN  IF red_id = KTX2_IDENTIFIER THEN Ok(<<>>)
      ELSE Err([kind |-> "BadIdentifier", arg |-> red_id])

\* LevelIndex::from_bytes
LevelIndex_from_bytes(data, endian) ==
  [offset |-> read_u64(Slice(data, 0, 8), endian),
   length_bytes |-> read_u64(Slice(data, 8, 16), endian),
   uncompressed_length_bytes |-> read_u64(Slice(data, 16, 24), endian)]

-----------------------------------------------------------------------------
(* The build.  Integer overflow and an over-long shift panic in a build    *)
(* with overflow checks (env.build = "debug") and wrap in one without      *)
(* (env.build = "release").                                                *)

\* u64 + u64
add_u64(a, b, build) ==
  LET s == AddC(a, b, 0)
  IN  IF Carry(s) = 1 /\ build = "debug"
        THEN Panic("attempt to add with overflow")
        ELSE Ok(Low(s))

\* u64 - u64
sub_u64(a, b, build) ==
  LET d == SubB(a, b, 0)
  IN  IF Carry(d) = 1 /\ build = "debug"
        THEN Panic("attempt to subtract with overflow")
        ELSE Ok(Low(d))

\* The exact product of two u32 as a u64, by doubling.
RECURSIVE WideMul(_, _)
WideMul(a, b) ==
  IF IsZero(b) THEN U64(0)
  ELSE LET twice == Low(MulC(WideMul(a, Shr32(b, 1)), 2, 0))
       IN  IF b[1] % 2 = 1 THEN Low(AddC(twice, Extend(a, 4), 0)) ELSE twice

\* u32 * u32
mul_u32(a, b, build) ==
  LET p == WideMul(a, b)
  IN  IF ~IsZero(SubSeq(p, 3, 4)) /\ build = "debug"
        THEN Panic("attempt to multiply with overflow")
        ELSE Ok(SubSeq(p, 1, 2))

\* u32 >> u32: the shift amount is masked to the width where it is not checked.
shr_u32(a, n, build) ==
  IF ~Less(n, U32(32)) /\ build = "debug"
    THEN Panic("attempt to shift right with overflow")
    ELSE Ok(Shr32(a, n[1] % 32))

-----------------------------------------------------------------------------
(* Reader: the functions of the decoded header and level index.            *)

\* Iterator::min over the offsets, from element i on: the fold keeps the
\* smaller one.
RECURSIVE MinFold(_, _, _)
MinFold(levels, i, best) ==
  IF i > Len(levels) THEN best
  ELSE IF Less(levels[i].offset, best) THEN MinFold(levels, i + 1, levels[i].offset)
  ELSE MinFold(levels, i + 1, best)

\* Of equally maximal elements the first one (not what max_by_key does).
RECURSIVE MaxByKeyFoldFirst(_, _, _)
MaxByKeyFoldFirst(levels, i, best) ==
  IF i > Len(levels) THEN best
  ELSE IF Less(best.offset, levels[i].offset)
         THEN MaxByKeyFoldFirst(levels, i + 1, levels[i])
  ELSE MaxByKeyFoldFirst(levels, i + 1, best)

\* Iterator::max_by_key(|l| l.offset), from element i on: of equally maximal
\* elements the last one is returned.
RECURSIVE MaxByKeyFold(_, _, _)
MaxByKeyFold(levels, i, best) ==
  IF i > Len(levels) THEN best
  ELSE IF Leq(best.offset, levels[i].offset) THEN MaxByKeyFold(levels, i + 1, levels[i])
  ELSE MaxByKeyFold(levels, i + 1, best)

\* Reader::first_level_offset_bytes; None.expect(..) panics.
first_level_offset_bytes(levels) ==
  IF levels = <<>> THEN Panic("No levels got, but read some on constructing")
  ELSE Ok(MinFold(levels, 2, levels[1].offset))

\* last_level with the first of equally maximal elements.
last_level_first(levels) ==
  IF levels = <<>> THEN Panic("No levels got, but read some on constructing")
  ELSE Ok(MaxByKeyFoldFirst(levels, 2, levels[1]))

\* Reader::last_level
last_level(levels) ==
  IF levels = <<>> THEN Panic("No levels got, but read some on constructing")
  ELSE Ok(MaxByKeyFold(levels, 2, levels[1]))

\* Reader::data_len_bytes
data_len_bytes(levels, build) ==
  LET start_offset == first_level_offset_bytes(levels)
      last == last_level(levels)
  IN  IF start_offset.tag # "Ok" THEN start_offset
      ELSE IF last.tag # "Ok" THEN last
      ELSE LET end == add_u64(last.val.offset, last.val.uncompressed_length_bytes, build)
           IN  IF end.tag # "Ok" THEN end
               ELSE sub_u64(end.val, start_offset.val, build)

\* Reader::level_size
level_size(base, level, build) ==
  LET shifted == shr_u32(base, level, build)
  IN  IF shifted.tag # "Ok" THEN shifted ELSE Ok(Max32(shifted.val, U32(1)))

\* Reader::region_from_level_index; i is a usize, and `i as u32` keeps its
\* low 32 bits.
region_from_level_index(h, i, offset, build) ==
  LET level == U32(i)
      layer_count == mul_u32(Max32(h.layer_count, U32(1)), h.face_count, build)
      width == level_size(h.base_width, level, build)
      height == level_size(h.base_height, level, build)
      depth == level_size(h.base_depth, level, build)
  IN  IF layer_count.tag # "Ok" THEN layer_count
      ELSE IF width.tag # "Ok" THEN width
      ELSE IF height.tag # "Ok" THEN height
      ELSE IF depth.tag # "Ok" THEN depth
      ELSE Ok([level |-> level,
               layer_count |-> layer_count.val,
               offset_bytes |-> offset,
               width |-> width.val,
               height |-> height.val,
               depth |-> depth.val])

\* The closure of regions_description for entry i (0-based).
region_of_entry(h, levels, i, base_offset, build) ==
  LET offset == sub_u64(levels[i + 1].offset, base_offset, build)
  IN  IF offset.tag # "Ok" THEN offset
      ELSE region_from_level_index(h, i, offset.val, build)

\* Reader::regions_description: the entries in index order; the first panic
\* of the map ends the call.
regions_description(h, levels, build) ==
  LET base_offset == first_level_offset_bytes(levels)
  IN  IF base_offset.tag # "Ok" THEN base_offset
      ELSE LET regions == [i \in 1..Len(levels) |->
                             region_of_entry(h, levels, i - 1, base_offset.val, build)]
               bad == {i \in 1..Len(levels) : regions[i].tag # "Ok"}
           IN  IF bad # {}
                 THEN regions[CHOOSE i \in bad : \A j \in bad : i <= j]
                 ELSE Ok([i \in 1..Len(levels) |-> regions[i].val])

-----------------------------------------------------------------------------
(* The input: a byte stream with a cursor (AsyncRead + AsyncSeek).         *)

IoError(kind) == Err([kind |-> kind, arg |-> <<>>])

\* read_exact of n bytes (a u64) at cursor p can be served by the stream.
CanRead(p, n) ==
  \/ IsZero(n)
  \/ /\ Fits(p)
     /\ Fits(n)
     /\ ToNat(p) + ToNat(n) <= Len(stream)

ReadBytes(p, n) ==
  IF IsZero(n) THEN <<>> ELSE SubSeq(stream, ToNat(p) + 1, ToNat(p) + ToNat(n))

\* The bytes left at cursor p, which a read_exact that meets the end of the
\* stream has consumed.
Remaining(p) ==
  IF Fits(p) /\ ToNat(p) < Len(stream)
    THEN SubSeq(stream, ToNat(p) + 1, Len(stream))
    ELSE <<>>

Advance(p, n) == Low(AddC(p, n, 0))

IoEvent(kind, arg) == [kind |-> kind, arg |-> arg]

NoHeader ==
  [format |-> U32(0), type_size |-> U32(0), base_width |-> U32(0),
   base_height |-> U32(0), base_depth |-> U32(0), layer_count |-> U32(0),
   face_count |-> U32(0), level_count |-> U32(0),
   supercompression_scheme |-> U32(0)]

NoCall == [name |-> "none", start |-> U64(0), len |-> U64(0), count |-> U32(0)]

Returned(op, r) == [op |-> op] @@ r

-----------------------------------------------------------------------------
(* Reader::new, one action per completed I/O operation: the code between   *)
(* two awaits runs with the completion of the first.                       *)

\* read_level_index up to its first await: the entry count, the byte length
\* of the table and the zeroed vector of that length.
level_index_bytes_len(h, build) ==
  LET level_count == Max32(h.level_count, U32(1))
  IN  mul_u32(level_count, U32(LEVEL_INDEX_BYTE_LEN), build)

\* The loop of read_level_index over a vector of len bytes, from level_index
\* on: the number of slices taken when it ends, or the panic of the first
\* slice that ends beyond the vector.
RECURSIVE SliceLoop(_, _, _, _)
SliceLoop(len, level_index, level_count, build) ==
  IF ~Less(U32(level_index), level_count) THEN Ok(level_index)
  ELSE LET start_byte == mul_u32(U32(level_index), U32(LEVEL_INDEX_BYTE_LEN), build)
       IN  IF start_byte.tag # "Ok" THEN start_byte
           ELSE IF ToNat(start_byte.val) + LEVEL_INDEX_BYTE_LEN > len
             THEN Panic("range end index out of range for slice")
             ELSE SliceLoop(len, level_index + 1, level_count, build)

\* The entries read_level_index pushes: one per slice, in order.
DecodeLoop(bytes, level_count, e) ==
  LET taken == SliceLoop(Len(bytes), 0, level_count, e.build)
  IN  IF taken.tag # "Ok" THEN taken
      ELSE Ok([i \in 1..taken.val |->
                 LevelIndex_from_bytes(Slice(bytes, LEVEL_INDEX_BYTE_LEN * (i - 1),
                                             LEVEL_INDEX_BYTE_LEN * i),
                                       e.endian)])

\* read_head without the identifier check.
decode_head_unchecked(head_bytes, endian) == Header_from_bytes(head_bytes, endian)

\* read_head after its read: the identifier check, then the header decode.
decode_head(head_bytes, endian) ==
  LET id == test_identifier(head_bytes)
  IN  IF id.tag # "Ok" THEN id ELSE Header_from_bytes(head_bytes, endian)


\* `?` that records the failure and lets new go on.
FailAndGoOn(op, r) ==
  /\ result' = Returned(op, r)
  /\ pc' = IF pc = "new_read_head" THEN "new_seek"
           ELSE IF pc = "new_seek" THEN "new_read_index" ELSE "ready"

\* `?` on an Err, or the unwinding of a panic: new is over.
Fail(op, r) ==
  /\ result' = Returned(op, r)
  /\ pc' = IF r.tag = "Panic" THEN "panicked" ELSE "failed"

\* input.read_exact(&mut head_bytes) completes.
NewReadHead ==
  /\ pc = "new_read_head"
  /\ io' = Append(io, IoEvent("read", U64(HEAD_BYTES_LEN)))
  /\ UNCHANGED <<env, stream, levels_index, buf>>
  /\ \/ /\ Fail("new", IoError("Other"))
        /\ trace' = Append(trace, "read_head")
        /\ UNCHANGED <<pos, head, call>>
     \/ /\ ~CanRead(pos, U64(HEAD_BYTES_LEN))
        /\ Fail("new", IoError("UnexpectedEof"))
        /\ trace' = Append(trace, "read_head")
        /\ pos' = Advance(pos, U64(Len(Remaining(pos))))
        /\ UNCHANGED <<head, call>>
     \/ /\ CanRead(pos, U64(HEAD_BYTES_LEN))
        /\ pos' = Advance(pos, U64(HEAD_BYTES_LEN))
        /\ LET head_bytes == ReadBytes(pos, U64(HEAD_BYTES_LEN))
               id == test_identifier(head_bytes)
               h == decode_head(head_bytes, env.endian)
           IN  IF h.tag # "Ok"
                 THEN /\ Fail("new", h)
                      /\ trace' = IF id.tag # "Ok"
                                    THEN trace \o <<"read_head", "test_identifier">>
                                    ELSE trace \o <<"read_head", "test_identifier",
                                                    "Header::from_bytes">>
                      /\ UNCHANGED <<head, call>>
                 ELSE LET len == level_index_bytes_len(h.val, env.build)
                      IN  /\ head' = h.val
                          /\ trace' = trace \o <<"read_head", "test_identifier",
                                                 "Header::from_bytes">>
                          /\ IF len.tag # "Ok"
                               THEN /\ Fail("new", len)
                                    /\ UNCHANGED call
                               ELSE /\ pc' = "new_seek"
                                    /\ call' = [name |-> "new",
                                                start |-> U64(LEVEL_INDEX_START_BYTE),
                                                len |-> Extend(len.val, 4),
                                                count |-> Max32(h.val.level_count, U32(1))]
                                    /\ UNCHANGED result

\* input.seek(SeekFrom::Start(LEVEL_INDEX_START_BYTE)) completes.
NewSeek ==
  /\ pc = "new_seek"
  /\ io' = Append(io, IoEvent("seek", call.start))
  /\ trace' = Append(trace, "seek")
  /\ UNCHANGED <<env, stream, head, levels_index, call, buf>>
  /\ \/ /\ Fail("new", IoError("Other"))
        /\ UNCHANGED pos
     \/ /\ pos' = call.start
        /\ pc' = "new_read_index"
        /\ UNCHANGED result

\* input.read_exact(&mut level_index_bytes) completes; the entries are
\* decoded and the Reader is assembled.
NewReadIndex ==
  /\ pc = "new_read_index"
  /\ io' = Append(io, IoEvent("read", call.len))
  /\ trace' = Append(trace, "read_level_index")
  /\ UNCHANGED <<env, stream, head, call, buf>>
  /\ \/ /\ Fail("new", IoError("Other"))
        /\ UNCHANGED <<pos, levels_index>>
     \/ /\ ~CanRead(pos, call.len)
        /\ Fail("new", IoError("UnexpectedEof"))
        /\ pos' = Advance(pos, U64(Len(Remaining(pos))))
        /\ UNCHANGED levels_index
     \/ /\ CanRead(pos, call.len)
        /\ pos' = Advance(pos, call.len)
        /\ LET infos == DecodeLoop(ReadBytes(pos, call.len), call.count, env)
           IN  IF infos.tag # "Ok"
                 THEN /\ Fail("new", infos)
                      /\ UNCHANGED levels_index
                 ELSE /\ levels_index' = infos.val
                      /\ result' = Returned("new", Ok(<<>>))
                      /\ pc' = "ready"

-----------------------------------------------------------------------------
(* The constructed Reader's operations.                                    *)

\* The byte a caller's buffer holds before read_data_to fills it.
FILL == 2^8 - 1

\* read_data_to without the check of the buffer's length.
read_data_to_enter_unchecked(levels, buf_len, build) ==
  LET len == data_len_bytes(levels, build)
  IN  IF len.tag # "Ok" THEN len ELSE first_level_offset_bytes(levels)

\* read_data_to up to its first await: Err(BadBuffer) for a buffer of another
\* length than data_len_bytes(), otherwise the offset to seek to.  The target
\* has 64-bit addresses: `as usize` keeps a u64 whole.
read_data_to_enter(levels, buf_len, build) ==
  LET len == data_len_bytes(levels, build)
  IN  IF len.tag # "Ok" THEN len
      ELSE IF buf_len # len.val THEN Err([kind |-> "BadBuffer", arg |-> len.val])
      ELSE first_level_offset_bytes(levels)

\* read_data up to its first await: the buffer of data_len_bytes() zeroes
\* (a Vec holds at most isize::MAX bytes), then read_data_to's entry, whose
\* BadBuffer is turned into a panic.
read_data_enter(levels, build) ==
  LET len == data_len_bytes(levels, build)
  IN  IF len.tag # "Ok" THEN len
      ELSE IF len.val[4] >= 2^15 THEN Panic("capacity overflow")
      ELSE LET entered == read_data_to_enter(levels, len.val, build)
           IN  IF entered.tag = "Err" /\ entered.err.kind = "BadBuffer"
                 THEN Panic("Pass well sized buffer to read_data_to(), but got BadBuffer error")
                 ELSE entered

\* Reader::header
CallHeader ==
  /\ pc = "ready"
  /\ result' = Returned("header", Ok(head))
  /\ io' = <<>>
  /\ buf' = <<>>
  /\ UNCHANGED <<env, stream, pos, pc, head, levels_index, trace, call>>

\* Reader::regions_description
CallRegionsDescription ==
  /\ pc = "ready"
  /\ result' = Returned("regions_description",
                        regions_description(head, levels_index, env.build))
  /\ io' = <<>>
  /\ buf' = <<>>
  /\ UNCHANGED <<env, stream, pos, pc, head, levels_index, trace, call>>

\* Reader::data_len_bytes
CallDataLenBytes ==
  /\ pc = "ready"
  /\ result' = Returned("data_len_bytes", data_len_bytes(levels_index, env.build))
  /\ io' = <<>>
  /\ buf' = <<>>
  /\ UNCHANGED <<env, stream, pos, pc, head, levels_index, trace, call>>

\* Reader::read_data_to is called with a buffer of buf_len FILL bytes and
\* runs to its seek.
CallReadDataTo(buf_len) ==
  /\ pc = "ready"
  /\ buf' = [i \in 1..buf_len |-> FILL]
  /\ io' = <<>>
  /\ UNCHANGED <<env, stream, pos, head, levels_index, trace>>
  /\ LET entered == read_data_to_enter(levels_index, U64(buf_len), env.build)
     IN  IF entered.tag # "Ok"
           THEN /\ result' = Returned("read_data_to", entered)
                /\ UNCHANGED <<pc, call>>
           ELSE /\ pc' = "seek"
                /\ call' = [name |-> "read_data_to", start |-> entered.val,
                            len |-> U64(buf_len), count |-> U32(0)]
                /\ UNCHANGED result

\* Reader::read_data is called and runs to read_data_to's seek.
CallReadData ==
  /\ pc = "ready"
  /\ io' = <<>>
  /\ buf' = <<>>
  /\ UNCHANGED <<env, stream, pos, head, levels_index, trace>>
  /\ LET entered == read_data_enter(levels_index, env.build)
         len == data_len_bytes(levels_index, env.build)
     IN  IF entered.tag # "Ok"
           THEN /\ result' = Returned("read_data", entered)
                /\ UNCHANGED <<pc, call>>
           ELSE /\ pc' = "seek"
                /\ call' = [name |-> "read_data", start |-> entered.val,
                            len |-> len.val, count |-> U32(0)]
                /\ UNCHANGED result

\* The seek of read_data_to left out: the read starts where the cursor is.
SeekDoneNoSeek ==
  /\ pc = "seek"
  /\ io' = Append(io, IoEvent("seek", call.start))
  /\ UNCHANGED <<env, stream, head, levels_index, trace, buf>>
  /\ \/ /\ result' = Returned(call.name, IoError("Other"))
        /\ pc' = "ready"
        /\ call' = NoCall
        /\ UNCHANGED pos
     \/ /\ pc' = "read"
        /\ UNCHANGED <<pos, result, call>>

\* self.input.seek(SeekFrom::Start(data_start_byte)) completes.
SeekDone ==
  /\ pc = "seek"
  /\ io' = Append(io, IoEvent("seek", call.start))
  /\ UNCHANGED <<env, stream, head, levels_index, trace, buf>>
  /\ \/ /\ result' = Returned(call.name, IoError("Other"))
        /\ pc' = "ready"
        /\ call' = NoCall
        /\ UNCHANGED pos
     \/ /\ pos' = call.start
        /\ pc' = "read"
        /\ UNCHANGED <<result, call>>

\* self.input.read_exact(buf) completes.  What a failed read_exact leaves in
\* the buffer is unspecified: here, the bytes it got before the end.
ReadDone ==
  /\ pc = "read"
  /\ io' = Append(io, IoEvent("read", call.len))
  /\ pc' = "ready"
  /\ call' = NoCall
  /\ UNCHANGED <<env, stream, head, levels_index, trace>>
  /\ \/ /\ result' = Returned(call.name, IoError("Other"))
        /\ UNCHANGED <<pos, buf>>
     \/ /\ ~CanRead(pos, call.len)
        /\ result' = Returned(call.name, IoError("UnexpectedEof"))
        /\ pos' = Advance(pos, U64(Len(Remaining(pos))))
        /\ buf' = IF call.name = "read_data_to"
                    THEN [i \in 1..Len(buf) |->
                            IF i <= Len(Remaining(pos)) THEN Remaining(pos)[i] ELSE buf[i]]
                    ELSE buf
     \/ /\ CanRead(pos, call.len)
        /\ pos' = Advance(pos, call.len)
        /\ IF call.name = "read_data_to"
             THEN /\ buf' = ReadBytes(pos, call.len)
                  /\ result' = Returned(call.name, Ok(<<>>))
             ELSE /\ result' = Returned(call.name, Ok(ReadBytes(pos, call.len)))
                  /\ UNCHANGED buf

\* The future of a read_data or read_data_to call is dropped at an await.
Cancel ==
  /\ pc \in {"seek", "read"}
  /\ pc' = "ready"
  /\ call' = NoCall
  /\ result' = Returned(call.name, [tag |-> "Cancelled"])
  /\ UNCHANGED <<env, stream, pos, head, levels_index, trace, buf, io>>

-----------------------------------------------------------------------------
(* The inputs: the hosts and builds, and the streams handed to Reader::new. *)

\* The most levels for which every choice of level-index entries is tried.
MaxLevels == 2

\* The level count of the long mip chain, whose last levels are 32 and up.
DeepLevels == 33

\* The longest buffer handed to read_data_to.
MaxBufLen == 4

\* The payload bytes that follow the level index.
PayloadLen == 8

Envs == [endian : {"little", "big"}, build : {"debug", "release"}]

\* The bytes of a word in the file's byte order.
RECURSIVE LittleBytes(_)
LittleBytes(a) ==
  IF a = <<>> THEN <<>> ELSE <<Head(a) % 256, Head(a) \div 256>> \o LittleBytes(Tail(a))

Enc(a, order) == IF order = "little" THEN LittleBytes(a) ELSE Rev(LittleBytes(a))

\* The identifier with its k-th byte replaced by '4', which it holds nowhere.
Corrupt(k) == [KTX2_IDENTIFIER EXCEPT ![k] = 52]

Identifiers == {KTX2_IDENTIFIER} \cup {Corrupt(k) : k \in 1..12}

\* The least level count whose table length passes 2^32: 178956971.
OverflowingLevelCount == <<43691, 2730>>

AllOnes32 == <<Limb - 1, Limb - 1>>

Geometry(w, h, d, layers, faces) ==
  [base_width |-> w, base_height |-> h, base_depth |-> d,
   layer_count |-> layers, face_count |-> faces]

\* A 4x4 image; a 17x5 cube-map array; dimensions and layers at the top of u32.
Geometries ==
  {Geometry(U32(4), U32(4), U32(1), U32(0), U32(1)),
   Geometry(U32(17), U32(5), U32(0), U32(2), U32(6)),
   Geometry(AllOnes32, <<0, 2^15>>, U32(1), <<0, 2^15>>, U32(2))}

DefaultGeometry == Geometry(U32(4), U32(4), U32(1), U32(0), U32(1))

HeaderFields(format, g, levels, scheme) ==
  [format |-> format, type_size |-> U32(1), base_width |-> g.base_width,
   base_height |-> g.base_height, base_depth |-> g.base_depth,
   layer_count |-> g.layer_count, face_count |-> g.face_count,
   level_count |-> levels, supercompression_scheme |-> scheme]

HeadBytes(id, h, order) ==
  id \o Enc(h.format, order) \o Enc(h.type_size, order) \o Enc(h.base_width, order)
     \o Enc(h.base_height, order) \o Enc(h.base_depth, order)
     \o Enc(h.layer_count, order) \o Enc(h.face_count, order)
     \o Enc(h.level_count, order) \o Enc(h.supercompression_scheme, order)

Entry(offset, length, uncompressed) ==
  [offset |-> offset, length_bytes |-> length, uncompressed_length_bytes |-> uncompressed]

\* The entries a level may have in a file whose payload starts at byte d: two
\* adjacent levels, one that starts with the first and ends beyond the second,
\* and one at the top of u64.
EntryMenu(d) ==
  {Entry(U64(d), U64(1), U64(2)),
   Entry(U64(d + 2), U64(3), U64(2)),
   Entry(U64(d), U64(7), U64(6)),
   Entry(<<Limb - 2, Limb - 1, Limb - 1, Limb - 1>>, U64(4), U64(4))}

RECURSIVE TableBytes(_, _)
TableBytes(table, order) ==
  IF table = <<>> THEN <<>>
  ELSE Enc(Head(table).offset, order) \o Enc(Head(table).length_bytes, order)
       \o Enc(Head(table).uncompressed_length_bytes, order)
       \o TableBytes(Tail(table), order)

DataStart(n) == LEVEL_INDEX_START_BYTE + LEVEL_INDEX_BYTE_LEN * n

Payload == [j \in 1..PayloadLen |-> 100 + j]

\* A whole file: head, the 32 bytes up to the level index, the index, the payload.
File(id, h, table, order) ==
  HeadBytes(id, h, order) \o [i \in 1..(LEVEL_INDEX_START_BYTE - HEAD_BYTES_LEN) |-> 0]
    \o TableBytes(table, order) \o Payload

Cut(file, n) == SubSeq(file, 1, IF n < Len(file) THEN n ELSE Len(file))

Tables(n) == [1..n -> EntryMenu(DataStart(n))]

DefaultTable(n) == [i \in 1..n |-> Entry(U64(DataStart(n) + 2 * (i % 2)), U64(1), U64(2))]

\* Files that probe the identifier and the header checks: every identifier,
\* every combination of a good or bad format, width, face count and scheme,
\* cut short at several lengths.
ProbeFiles ==
  {Cut(File(id,
            HeaderFields(format, [DefaultGeometry EXCEPT !.base_width = w,
                                                         !.face_count = f],
                         U32(1), scheme),
            DefaultTable(1), order), n) :
     id \in Identifiers, format \in {U32(37), U32(38)}, w \in {U32(0), U32(4)},
     f \in {U32(0), U32(1)}, scheme \in {U32(0), U32(1)},
     order \in {"little", "big"}, n \in {47, 100, 200}}

\* Files with a good header and every choice of entries for 0..MaxLevels levels,
\* whole or with the payload cut short.
LevelFiles ==
  UNION {{Cut(File(KTX2_IDENTIFIER, HeaderFields(U32(37), DefaultGeometry, U32(n), U32(0)),
                   table, order), DataStart(Len(table)) + m) :
            table \in Tables(IF n = 0 THEN 1 ELSE n), order \in {"little", "big"},
            m \in {1, PayloadLen}} : n \in 0..MaxLevels}

\* Files of every geometry with the default entries, up to the long mip chain.
GeometryFiles ==
  {File(KTX2_IDENTIFIER, HeaderFields(U32(37), g, U32(n), U32(0)),
        DefaultTable(n), order) :
     g \in Geometries, n \in {1, 2, DeepLevels}, order \in {"little", "big"}}

\* Files whose level count makes the table length pass 2^32.
HugeFiles ==
  {File(KTX2_IDENTIFIER, HeaderFields(U32(37), DefaultGeometry, levels, U32(0)),
        DefaultTable(MaxLevels), order) :
     levels \in {OverflowingLevelCount, AllOnes32}, order \in {"little", "big"}}

InputStreams == ProbeFiles \cup LevelFiles \cup GeometryFiles \cup HugeFiles

-----------------------------------------------------------------------------
(* The specification.                                                      *)

Init ==
  /\ env \in Envs
  /\ stream \in InputStreams
  /\ pos = U64(0)
  /\ pc = "new_read_head"
  /\ head = NoHeader
  /\ levels_index = <<>>
  /\ trace = <<>>
  /\ call = NoCall
  /\ buf = <<>>
  /\ result = [op |-> "none", tag |-> "None"]
  /\ io = <<>>

Next ==
  \/ NewReadHead
  \/ NewSeek
  \/ NewReadIndex
  \/ CallHeader
  \/ CallRegionsDescription
  \/ CallDataLenBytes
  \/ \E buf_len \in 0..MaxBufLen : CallReadDataTo(buf_len)
  \/ CallReadData
  \/ SeekDone
  \/ ReadDone
  \/ Cancel

Spec == Init /\ [][Next]_vars

-----------------------------------------------------------------------------
(* What the properties below speak of.                                     *)

\* A Reader exists: new has returned Ok.
Constructed == pc \in {"ready", "seek", "read"}

Returns(op, tag) == result.op = op /\ result.tag = tag

\* The u32 at byte `at` of the stream, as the host reads it.
FieldAt(at) == read_u32(Slice(stream, at, at + 4), env.endian)

IdentifierDiffers ==
  /\ Len(stream) >= 12
  /\ \E k \in 1..12 : stream[k] # KTX2_IDENTIFIER[k]

FormatFails == FieldAt(12) \notin FormatRegistry
WidthFails == FieldAt(20) = U32(0)
FacesFail == FieldAt(36) = U32(0)
SchemeFails == FieldAt(44) # U32(0)

\* The step of new that ran last.
LastStep == trace[Len(trace)]

Ran(step) == \E i \in 1..Len(trace) : trace[i] = step

Offsets == {levels_index[i].offset : i \in 1..Len(levels_index)}

\* The least offset of the level index.
FirstLevelOffset == CHOOSE m \in Offsets : \A o \in Offsets : Leq(m, o)

\* The exact end, offset + uncompressed length, of entry i: five limbs.
EndOf(i) == AddC(levels_index[i].offset, levels_index[i].uncompressed_length_bytes, 0)

\* The entry the payload ends with: of the entries with the greatest offset,
\* the last in index order.
LastByOffset ==
  CHOOSE j \in 1..Len(levels_index) :
    /\ \A k \in 1..Len(levels_index) :
         Leq(levels_index[k].offset, levels_index[j].offset)
    /\ \A k \in (j + 1)..Len(levels_index) :
         levels_index[k].offset # levels_index[j].offset

\* The entry with the greatest end.
GreatestEnd ==
  CHOOSE j \in 1..Len(levels_index) :
    \A k \in 1..Len(levels_index) : Leq(EndOf(k), EndOf(j))

\* (the end of entry j) - (the least offset), modulo 2^64.
SpanTo(j) == Low(SubB(Low(EndOf(j)), FirstLevelOffset, 0))

\* offset + uncompressed length of the entry with the greatest offset does
\* not fit a u64.
EndOverflows == Carry(EndOf(LastByOffset)) = 1

-----------------------------------------------------------------------------
\* C1 (as claimed): data_len_bytes() is the greatest end, offset +
\* uncompressed_length, over all entries minus the least offset, whatever
\* the entries hold.
C1_GreatestEndMinusFirstOffset ==
  Returns("data_len_bytes", "Ok") => result.val = SpanTo(GreatestEnd)

\* C1 (amended): data_len_bytes() is offset + uncompressed_length of the entry
\* with the greatest offset (the last such entry in index order) minus the
\* least offset, in u64 arithmetic: modulo 2^64 where overflow is unchecked, a
\* panic where it is checked and the sum overflows.  With one entry it is
\* that entry's uncompressed_length.
C1_EndOfLastByOffsetMinusFirstOffset ==
  result.op = "data_len_bytes" =>
    /\ result.tag \in {"Ok", "Panic"}
    /\ result.tag = "Panic" <=> (env.build = "debug" /\ EndOverflows)
    /\ result.tag = "Ok" =>
         /\ result.val = SpanTo(LastByOffset)
         /\ Len(levels_index) = 1 =>
              result.val = levels_index[1].uncompressed_length_bytes

\* data_len_bytes() has returned for an index whose entry with the greatest
\* offset does not have the greatest end.
C1_Witness ==
  /\ Returns("data_len_bytes", "Ok")
  /\ Len(levels_index) = 2
  /\ Less(EndOf(LastByOffset), EndOf(GreatestEnd))
  /\ ~EndOverflows

-----------------------------------------------------------------------------
\* The header that from_bytes returns for the stream's head.
DecodedHeader ==
  [format |-> FieldAt(12), type_size |-> FieldAt(16), base_width |-> FieldAt(20),
   base_height |-> FieldAt(24), base_depth |-> FieldAt(28),
   layer_count |-> FieldAt(32), face_count |-> FieldAt(36),
   level_count |-> FieldAt(40), supercompression_scheme |-> FieldAt(44)]

ParseFailure(kind) ==
  /\ pc = "failed"
  /\ Returns("new", "Err")
  /\ result.err.kind = kind
  /\ head = NoHeader

\* C2: for a 48-byte head with a valid identifier, Header::from_bytes reports
\* the first failing check in field order (format id: UnknownFormat,
\* base_width = 0: ZeroWidth, face_count = 0: ZeroFaceCount, scheme # 0:
\* UnsupportedFeature) and nothing of the header; it returns the header, every
\* field as read, exactly when none of the four fails.
C2_FirstFailingField ==
  Ran("Header::from_bytes") =>
    /\ FormatFails => ParseFailure("UnknownFormat") /\ result.err.arg = FieldAt(12)
    /\ ~FormatFails /\ WidthFails => ParseFailure("ZeroWidth")
    /\ ~FormatFails /\ ~WidthFails /\ FacesFail => ParseFailure("ZeroFaceCount")
    /\ ~FormatFails /\ ~WidthFails /\ ~FacesFail /\ SchemeFails =>
         ParseFailure("UnsupportedFeature")
    /\ ~FormatFails /\ ~WidthFails /\ ~FacesFail /\ ~SchemeFails =>
         /\ head = DecodedHeader
         /\ pc = "failed" => result.err.kind \in {"Other", "UnexpectedEof"}
    /\ head # NoHeader =>
         ~FormatFails /\ ~WidthFails /\ ~FacesFail /\ ~SchemeFails

\* from_bytes has met a known format with a zero width, a zero face count
\* and a scheme, and has reported the width.
C2_Witness ==
  /\ Ran("Header::from_bytes")
  /\ ~FormatFails /\ WidthFails /\ FacesFail /\ SchemeFails
  /\ ParseFailure("ZeroWidth")

-----------------------------------------------------------------------------
NothingDecoded == head = NoHeader /\ ~Ran("Header::from_bytes") /\ levels_index = <<>>

\* The device has failed a read or a seek by itself.
DeviceFailed == result.tag = "Err" /\ result.err.kind = "Other"

\* C3 (as claimed): for every stream whose first 12 bytes differ from the
\* identifier, construction fails with BadIdentifier carrying those 12 bytes,
\* and no header field is decoded (granted that the device does not fail).
C3_BadIdentifierForEveryStream ==
  (IdentifierDiffers /\ pc # "new_read_head" /\ ~DeviceFailed) =>
    /\ pc = "failed"
    /\ Returns("new", "Err")
    /\ result.err.kind = "BadIdentifier"
    /\ result.err.arg = Slice(stream, 0, 12)
    /\ NothingDecoded

\* C3 (amended): for every stream whose first 12 bytes differ from the
\* identifier, construction fails and no header field is decoded: with
\* BadIdentifier carrying those 12 bytes when the read of the 48-byte head
\* succeeds, and with the I/O error of that read when it fails (as it does
\* for a stream shorter than 48 bytes).
C3_BadIdentifierOnceHeadIsRead ==
  (IdentifierDiffers /\ pc # "new_read_head") =>
    /\ pc = "failed"
    /\ Returns("new", "Err")
    /\ NothingDecoded
    /\ IF Ran("test_identifier")
         THEN /\ result.err.kind = "BadIdentifier"
              /\ result.err.arg = Slice(stream, 0, 12)
              /\ Len(stream) >= HEAD_BYTES_LEN
              /\ io = <<IoEvent("read", U64(HEAD_BYTES_LEN))>>
         ELSE /\ result.err.kind \in {"Other", "UnexpectedEof"}
              /\ trace = <<"read_head">>
    /\ Len(stream) < HEAD_BYTES_LEN => result.err.kind \in {"Other", "UnexpectedEof"}

\* Only the last byte of the identifier differs, the format id is unknown and
\* the width is zero: BadIdentifier is what construction reports.
C3_Witness ==
  /\ stream[12] # KTX2_IDENTIFIER[12]
  /\ \A k \in 1..11 : stream[k] = KTX2_IDENTIFIER[k]
  /\ pc = "failed"
  /\ result.err.kind = "BadIdentifier"
  /\ FormatFails /\ WidthFails

-----------------------------------------------------------------------------
FullTrace == <<"read_head", "test_identifier", "Header::from_bytes", "seek",
               "read_level_index">>

IsPrefix(a, b) == Len(a) <= Len(b) /\ a = SubSeq(b, 1, Len(a))

IoKinds == {"Other", "UnexpectedEof"}

ParseKindsOfHeader == {"UnknownFormat", "ZeroWidth", "ZeroFaceCount", "UnsupportedFeature"}

HeaderAccepted == ~FormatFails /\ ~WidthFails /\ ~FacesFail /\ ~SchemeFails

\* C4: the steps of Reader::new occur in the order identifier check, header
\* decode, level-index decode, each at most once; the seek to 80 and the read
\* of the level index come only after the identifier and the header were
\* accepted; new returns the failure of the first step that fails, and a
\* Reader exists only when every step has succeeded.
C4_StepsInOrderFirstFailureReturned ==
  /\ IsPrefix(trace, FullTrace)
  /\ Ran("seek") =>
       /\ ~IdentifierDiffers
       /\ HeaderAccepted
       /\ head = DecodedHeader
  /\ (result.op \in {"none", "new"} /\ pc \notin {"seek", "read"}) =>
       /\ Len(io) = Cardinality({i \in 1..Len(trace) :
                                   trace[i] \in {"read_head", "seek", "read_level_index"}})
       /\ Len(io) >= 1 => io[1] = IoEvent("read", U64(HEAD_BYTES_LEN))
       /\ Len(io) >= 2 => io[2] = IoEvent("seek", U64(LEVEL_INDEX_START_BYTE))
       /\ Len(io) >= 3 => io[3].kind = "read"
  /\ pc = "failed" =>
       /\ Returns("new", "Err")
       /\ levels_index = <<>>
       /\ LastStep = "read_head" => result.err.kind \in IoKinds
       /\ LastStep = "test_identifier" => result.err.kind = "BadIdentifier"
       /\ LastStep = "Header::from_bytes" => result.err.kind \in ParseKindsOfHeader
       /\ LastStep = "seek" => result.err.kind = "Other"
       /\ LastStep = "read_level_index" => result.err.kind \in IoKinds
  /\ pc = "panicked" => Returns("new", "Panic") /\ levels_index = <<>>
  /\ Constructed => trace = FullTrace /\ levels_index # <<>>
  /\ Returns("new", "Ok") => Constructed /\ trace = FullTrace
  /\ pc \in {"failed", "panicked"} => ~ENABLED Next

\* The identifier and the header were accepted, the seek succeeded, the read
\* of the level index met the end of the stream: new returned that failure.
C4_Witness ==
  /\ pc = "failed"
  /\ trace = FullTrace
  /\ result.err.kind = "UnexpectedEof"
  /\ head = DecodedHeader

-----------------------------------------------------------------------------
\* Entry i (from 1) of the level index as it lies in the stream.
SlotEntry(i) ==
  LET at == LEVEL_INDEX_START_BYTE + LEVEL_INDEX_BYTE_LEN * (i - 1)
  IN  [offset |-> read_u64(Slice(stream, at, at + 8), env.endian),
       length_bytes |-> read_u64(Slice(stream, at + 8, at + 16), env.endian),
       uncompressed_length_bytes |-> read_u64(Slice(stream, at + 16, at + 24), env.endian)]

\* max(level_count, 1) of the stream's header.
LevelCount == Max32(FieldAt(40), U32(1))

\* max(layer_count, 1) * face_count does not fit a u32.
LayersOverflow ==
  ~IsZero(SubSeq(WideMul(Max32(head.layer_count, U32(1)), head.face_count), 3, 4))

\* C5: for every constructed Reader, regions_description() returns
\* max(level_count, 1) entries in the order of the level index in the stream
\* (entry i has level i), each offset_bytes being the entry's offset minus the
\* least offset, without underflow, and 0 for every entry at the least offset
\* (granted that max(layer_count, 1) * face_count fits a u32).
C5_RegionsInIndexOrder ==
  (result.op = "regions_description" /\ ~LayersOverflow) =>
    /\ result.tag = "Ok"
    /\ U32(Len(result.val)) = LevelCount
    /\ \A i \in 1..Len(result.val) :
         /\ result.val[i].level = U32(i - 1)
         /\ AddC(result.val[i].offset_bytes, FirstLevelOffset, 0)
              = SlotEntry(i).offset \o <<0>>
         /\ SlotEntry(i).offset = FirstLevelOffset =>
              result.val[i].offset_bytes = U64(0)

-----------------------------------------------------------------------------
\* The length data_len_bytes() returns, when it returns.
DataLen == SpanTo(LastByOffset)

DataLenDefined == ~(env.build = "debug" /\ EndOverflows)

\* This step is a call of read_data_to.
ReadDataToCalled ==
  /\ pc = "ready"
  /\ \/ pc' = "ready" /\ result'.op = "read_data_to" /\ result' # result
     \/ pc' = "seek" /\ call'.name = "read_data_to"

Untouched(b) == b = [i \in 1..Len(b) |-> FILL]

\* C6: read_data_to with a buffer whose length differs from data_len_bytes(),
\* shorter or longer, fails with BadBuffer carrying data_len_bytes(), and
\* performs no seek and no read: the cursor and the buffer are as before.
C6_BadBufferTouchesNothing ==
  [][(ReadDataToCalled /\ DataLenDefined /\ U64(Len(buf')) # DataLen) =>
       /\ pc' = "ready"
       /\ result' = Returned("read_data_to", Err([kind |-> "BadBuffer", arg |-> DataLen]))
       /\ io' = <<>>
       /\ pos' = pos
       /\ Untouched(buf')
       /\ stream' = stream]_vars

\* read_data_to has refused a buffer one byte shorter than data_len_bytes().
C6_Witness ==
  /\ pc = "ready"
  /\ Returns("read_data_to", "Err")
  /\ result.err.kind = "BadBuffer"
  /\ U64(Len(buf) + 1) = result.err.arg
  /\ io = <<>>
  /\ Untouched(buf)

-----------------------------------------------------------------------------
\* max(floor(b / 2^i), 1)
LevelSize(b, i) == IF i >= 32 THEN U32(1) ELSE Max32(Shr32(b, i), U32(1))

\* C7: for every level i of regions_description, 32 and more included, and
\* every base dimension b, the width, height and depth reported are
\* max(floor(b / 2^i), 1).
C7_LevelSizeIsHalvedAndAtLeastOne ==
  Returns("regions_description", "Ok") =>
    \A i \in 1..Len(result.val) :
      /\ result.val[i].width = LevelSize(head.base_width, i - 1)
      /\ result.val[i].height = LevelSize(head.base_height, i - 1)
      /\ result.val[i].depth = LevelSize(head.base_depth, i - 1)

-----------------------------------------------------------------------------
\* max(level_count, 1) * 24, exactly.
TableLen == WideMul(LevelCount, U32(LEVEL_INDEX_BYTE_LEN))

\* C8: for every accepted header, whatever its level_count, the decoder seeks
\* to 80, reads max(level_count, 1) * 24 bytes in one read, and yields
\* max(level_count, 1) entries, entry i from bytes [80 + 24 i, 80 + 24 i + 24).
C8_WholeTableInOneRead ==
  (Ran("Header::from_bytes") /\ HeaderAccepted) =>
    /\ pc # "panicked"
    /\ (Ran("read_level_index") /\ result.op \in {"none", "new"}
                                  /\ pc \notin {"seek", "read"}) =>
         io = <<IoEvent("read", U64(HEAD_BYTES_LEN)),
                IoEvent("seek", U64(LEVEL_INDEX_START_BYTE)),
                IoEvent("read", TableLen)>>
    /\ Constructed =>
         /\ U32(Len(levels_index)) = LevelCount
         /\ \A i \in 1..Len(levels_index) : levels_index[i] = SlotEntry(i)

-----------------------------------------------------------------------------
\* C9: in every state of a constructed Reader, whatever calls were made and
\* however they ended, the header has base_width >= 1, face_count >= 1 and
\* supercompression_scheme = 0, and the level index is non-empty and is what
\* construction decoded; no call meets the "No levels got" panic.
C9_ReaderKeepsItsHeaderAndIndex ==
  /\ Constructed =>
       /\ Less(U32(0), head.base_width)
       /\ Less(U32(0), head.face_count)
       /\ head.supercompression_scheme = U32(0)
       /\ head = DecodedHeader
       /\ Len(levels_index) >= 1
       /\ \A i \in 1..Len(levels_index) : levels_index[i] = SlotEntry(i)
  /\ result.tag = "Panic" =>
       result.why # "No levels got, but read some on constructing"

\* A constructed Reader after a read_data that met the end of the stream.
C9_Witness ==
  /\ pc = "ready"
  /\ Returns("read_data", "Err")
  /\ result.err.kind = "UnexpectedEof"

-----------------------------------------------------------------------------
\* The stream's bytes [first level offset, first level offset + data length).
PayloadBytes ==
  SubSeq(stream, ToNat(FirstLevelOffset) + 1, ToNat(FirstLevelOffset) + ToNat(DataLen))

\* C10: when the seek and the read succeed, read_data() and read_data_to()
\* with a buffer of data_len_bytes() bytes yield the stream's bytes
\* [firstLevelOffset, firstLevelOffset + data_len_bytes()), wherever earlier
\* calls left the cursor; read_data() never meets its BadBuffer panic.
C10_ReadsThePayloadFromItsStart ==
  /\ (pc = "ready" /\ Returns("read_data", "Ok")) => result.val = PayloadBytes
  /\ (pc = "ready" /\ Returns("read_data_to", "Ok")) => buf = PayloadBytes
  /\ (pc = "ready" /\ result.op \in {"read_data", "read_data_to"} /\ result.tag = "Ok") =>
       /\ io = <<IoEvent("seek", FirstLevelOffset), IoEvent("read", DataLen)>>
       /\ pos = Advance(FirstLevelOffset, DataLen)
  /\ result.tag = "Panic" =>
       result.why # "Pass well sized buffer to read_data_to(), but got BadBuffer error"

\* read_data() has returned a payload that does not start where new left
\* the cursor.
C10_Witness ==
  /\ pc = "ready"
  /\ Returns("read_data", "Ok")
  /\ Len(result.val) >= 2
  /\ FirstLevelOffset # U64(DataStart(Len(levels_index)))

====
